---------------------------- MODULE Spec2Model ----------------------------
(***************************************************************************)
(* Tic-Tac-Toe with a minimax agent (src/gui_game.py): the game            *)
(* representation (class TicTacToe) and the search agent (class            *)
(* MinimaxAgent), as operators on values, and the harnesses that drive     *)
(* them, as state machines.                                                *)
(*                                                                         *)
(* A TicTacToe object is a record [board, current_player]; board[r][c] is  *)
(* the cell of row r and column c, both in 0..2, as in the source.  A      *)
(* method that changes its object returns the object's new value beside    *)
(* its return value.                                                       *)
(***************************************************************************)
EXTENDS Integers, Sequences, FiniteSets, TLC

VARIABLES
  game,      \* the TicTacToe object under test
  call,      \* the most recent call on it: operation, arguments, return
             \* value, and the value of the object before the call
  agents,    \* the two MinimaxAgent objects, by their use_alpha_beta flag
  move,      \* what each agent's last get_best_move returned
  searched,  \* both agents have searched the present state of game
  optimal,   \* every mark on the board was placed where an agent of the
             \* player to move said to place it
  recursion, \* what each agent's last get_best_move did on the stack
  gui        \* the TicTacToeGUI object and the callbacks Tk holds for it;
             \* its self.game is the variable game

vars == <<game, call, agents, move, searched, optimal, recursion, gui>>

---------------------------------------------------------------------------
(* Values *)

E == " "
X == "X"
O == "O"
Draw == "Draw"
None == "None"
\* The None of an Optional[Tuple[int, int]]: best_move before any action.
NoMove == <<>>
\* math.inf: larger than every utility.
Inf == 1000

Symbols == {X, O}
Cells == {E, X, O}
Boards == [0..2 -> [0..2 -> Cells]]
Games == [board : Boards, current_player : Symbols]

\* Coordinates a caller may pass: the board's own and MaxCoord - 2 beyond
\* it on the high side, one below it on the low side.
MaxCoord == 3
Coords == -1..MaxCoord

---------------------------------------------------------------------------
(* class TicTacToe *)

\* __init__: an empty board, X to move.
NewGame == [board |-> [r \in 0..2 |-> [c \in 0..2 |-> E]], current_player |-> X]

\* clone: a new object with a deep copy of the board.  aliased says whether
\* the new object's board is the same list object as self's (it is not:
\* deepcopy), in which case a write to one is a write to the other.
clone_shallow(self) ==
  [new |-> [board |-> self.board, current_player |-> self.current_player],
   aliased |-> TRUE]
clone(self) ==
  [new |-> [board |-> self.board, current_player |-> self.current_player],
   aliased |-> FALSE]

\* range(3) x range(3) in the order of the comprehension: row-major.
AllCells == [i \in 1..9 |-> <<(i - 1) \div 3, (i - 1) % 3>>]

get_legal_actions(self) ==
  SelectSeq(AllCells, LAMBDA a : self.board[a[1]][a[2]] = E)

is_valid_move_any_cell(self, row, col) ==
  0 <= row /\ row <= 2 /\ 0 <= col /\ col <= 2
is_valid_move(self, row, col) ==
  0 <= row /\ row <= 2 /\ 0 <= col /\ col <= 2 /\ self.board[row][col] = E

\* 'O' if self.current_player == 'X' else 'X'
OtherPlayer_same(p) == p
OtherPlayer(p) == IF p = X THEN O ELSE X

make_move_turn_passes(self, row, col) ==
  IF ~is_valid_move(self, row, col)
  THEN [self |-> [self EXCEPT !.current_player = OtherPlayer(@)], ret |-> FALSE]
  ELSE [self |-> [board |-> [self.board EXCEPT ![row][col] = self.current_player],
                  current_player |-> OtherPlayer(self.current_player)],
        ret |-> TRUE]
make_move_until_won(self, row, col) ==
  LET won == \E p \in {X, O} :
               \/ \E i \in 0..2 : \A j \in 0..2 : self.board[i][j] = p
               \/ \E j \in 0..2 : \A i \in 0..2 : self.board[i][j] = p
               \/ \A i \in 0..2 : self.board[i][i] = p
               \/ \A i \in 0..2 : self.board[i][2 - i] = p
  IN IF won \/ ~is_valid_move(self, row, col)
     THEN [self |-> self, ret |-> FALSE]
     ELSE [self |-> [board |-> [self.board EXCEPT
                                  ![row][col] = self.current_player],
                     current_player |-> OtherPlayer(self.current_player)],
           ret |-> TRUE]
make_move(self, row, col) ==
  IF ~is_valid_move(self, row, col)
  THEN [self |-> self, ret |-> FALSE]
  ELSE [self |-> [board |-> [self.board EXCEPT ![row][col] = self.current_player],
                  current_player |-> OtherPlayer(self.current_player)],
        ret |-> TRUE]

\* p == q == s != ' '
Same3(p, q, s) == p = q /\ q = s /\ s # E

check_winner_no_anti_diagonal(self) ==
  LET b == self.board IN
  IF Same3(b[0][0], b[0][1], b[0][2]) THEN b[0][0]
  ELSE IF Same3(b[1][0], b[1][1], b[1][2]) THEN b[1][0]
  ELSE IF Same3(b[2][0], b[2][1], b[2][2]) THEN b[2][0]
  ELSE IF Same3(b[0][0], b[1][0], b[2][0]) THEN b[0][0]
  ELSE IF Same3(b[0][1], b[1][1], b[2][1]) THEN b[0][1]
  ELSE IF Same3(b[0][2], b[1][2], b[2][2]) THEN b[0][2]
  ELSE IF Same3(b[0][0], b[1][1], b[2][2]) THEN b[0][0]
  ELSE IF get_legal_actions(self) = <<>> THEN Draw
  ELSE None
check_winner_no_draw(self) ==
  LET b == self.board IN
  IF Same3(b[0][0], b[0][1], b[0][2]) THEN b[0][0]
  ELSE IF Same3(b[1][0], b[1][1], b[1][2]) THEN b[1][0]
  ELSE IF Same3(b[2][0], b[2][1], b[2][2]) THEN b[2][0]
  ELSE IF Same3(b[0][0], b[1][0], b[2][0]) THEN b[0][0]
  ELSE IF Same3(b[0][1], b[1][1], b[2][1]) THEN b[0][1]
  ELSE IF Same3(b[0][2], b[1][2], b[2][2]) THEN b[0][2]
  ELSE IF Same3(b[0][0], b[1][1], b[2][2]) THEN b[0][0]
  ELSE IF Same3(b[0][2], b[1][1], b[2][0]) THEN b[0][2]
  ELSE None
\* The rows in order, the columns in order, the main diagonal, the
\* anti-diagonal, then the full board.
check_winner(self) ==
  LET b == self.board IN
  IF Same3(b[0][0], b[0][1], b[0][2]) THEN b[0][0]
  ELSE IF Same3(b[1][0], b[1][1], b[1][2]) THEN b[1][0]
  ELSE IF Same3(b[2][0], b[2][1], b[2][2]) THEN b[2][0]
  ELSE IF Same3(b[0][0], b[1][0], b[2][0]) THEN b[0][0]
  ELSE IF Same3(b[0][1], b[1][1], b[2][1]) THEN b[0][1]
  ELSE IF Same3(b[0][2], b[1][2], b[2][2]) THEN b[0][2]
  ELSE IF Same3(b[0][0], b[1][1], b[2][2]) THEN b[0][0]
  ELSE IF Same3(b[0][2], b[1][1], b[2][0]) THEN b[0][2]
  ELSE IF get_legal_actions(self) = <<>> THEN Draw
  ELSE None

is_terminal_when_full(self) == get_legal_actions(self) = <<>>
is_terminal(self) ==
  check_winner(self) # None \/ get_legal_actions(self) = <<>>

\* No line is complete: get_winning_line returns None.
NoLine == <<>>

\* lines, in the order of the list: rows, columns, diagonals
lines ==
  << << <<0, 0>>, <<0, 1>>, <<0, 2>> >>, << <<1, 0>>, <<1, 1>>, <<1, 2>> >>,
     << <<2, 0>>, <<2, 1>>, <<2, 2>> >>,
     << <<0, 0>>, <<1, 0>>, <<2, 0>> >>, << <<0, 1>>, <<1, 1>>, <<2, 1>> >>,
     << <<0, 2>>, <<1, 2>>, <<2, 2>> >>,
     << <<0, 0>>, <<1, 1>>, <<2, 2>> >>, << <<0, 2>>, <<1, 1>>, <<2, 0>> >> >>

\* symbols = [b[r][c] for r, c in line]
symbols(self, line) == [k \in 1..3 |-> self.board[line[k][1]][line[k][2]]]

\* The indices of the list in the order the loop visits them.
visit_columns_first == <<4, 5, 6, 1, 2, 3, 7, 8>>
visit == <<1, 2, 3, 4, 5, 6, 7, 8>>

\* The first line of the loop whose three symbols are equal and not ' '.
get_winning_line(self) ==
  LET hits == SelectSeq(visit,
                        LAMBDA i : Same3(symbols(self, lines[i])[1],
                                         symbols(self, lines[i])[2],
                                         symbols(self, lines[i])[3]))
  IN IF hits = <<>> THEN NoLine ELSE lines[hits[1]]

utility_no_win(self, player) ==
  LET w == check_winner(self) IN
  IF w = Draw THEN 0
  ELSE IF w # None /\ w # player THEN -10
  ELSE 0
utility_no_loss(self, player) ==
  LET w == check_winner(self) IN
  IF w = player THEN 10
  ELSE 0
utility(self, player) ==
  LET w == check_winner(self) IN
  IF w = player THEN 10
  ELSE IF w = Draw THEN 0
  ELSE IF w # None THEN -10
  ELSE 0

---------------------------------------------------------------------------
(* class MinimaxAgent *)

\* __init__
NewAgent(player, use_alpha_beta) ==
  [player |-> player, opponent |-> IF player = X THEN O ELSE X,
   use_alpha_beta |-> use_alpha_beta, nodes_expanded |-> 0]

AgentObjects ==
  [player : Symbols, opponent : Symbols, use_alpha_beta : BOOLEAN,
   nodes_expanded : Nat]

\* best_val before the loop of each node.
initial_copied_from_min == Inf
_max_initial == -Inf
_min_initial == Inf
_ab_max_initial == -Inf
_ab_min_initial == Inf

\* The test that replaces best_val and best_move by val and action.
improves_or_ties_max(val, best_val) == val >= best_val
improves_max(val, best_val) == val > best_val
improves_min(val, best_val) == val < best_val
ab_improves_or_ties_max(val, best_val) == val >= best_val
ab_improves_max(val, best_val) == val > best_val
ab_improves_min(val, best_val) == val < best_val

\* The cut-off tests of the pruned search.
beta_cutoff(best_val, beta) == best_val >= beta
alpha_cutoff(best_val, alpha) == best_val <= alpha

\* max(alpha, best_val) and min(beta, best_val)
raise_alpha(alpha, best_val) == IF best_val > alpha THEN best_val ELSE alpha
lower_beta(beta, best_val) == IF best_val < beta THEN best_val ELSE beta

(***************************************************************************)
(* A search method returns [val, move]: here also nodes, the number of     *)
(* times the call and the calls below it ran self.nodes_expanded += 1, and *)
(* game, the value of the object passed as game when the call returns.     *)
(* It also returns what the call did on the stack: empties, the number of  *)
(* empty cells of game when the call was made; plies, the greatest number  *)
(* of calls nested below it; and shrinks, whether every call below it was  *)
(* made on a game with one empty cell fewer than its caller's.             *)
(* The loop over the legal actions is a recursion on the index i of the    *)
(* action; the list of actions is the one computed when the loop starts.   *)
(* One turn of the loop is _loop, which makes the child and searches it,   *)
(* followed by _update, which compares the value found and goes on.        *)
(*                                                                         *)
(* Every call of the recursion goes through a function of its arguments    *)
(* (MaxNode for _max, MaxLoop for _max_loop, MaxUpdate for _max_update and *)
(* so on): a function is applied to the value of its argument, so that the *)
(* search below a child is evaluated once, and its body is evaluated in    *)
(* the context of its definition, which keeps the evaluation context short *)
(* across the nine plies of the recursion.                                 *)
(***************************************************************************)
RECURSIVE _max(_, _), _min(_, _), _ab_max(_, _, _, _), _ab_min(_, _, _, _)
RECURSIVE _max_loop(_, _), _min_loop(_, _)
RECURSIVE _ab_max_loop(_, _, _, _), _ab_min_loop(_, _, _, _)
RECURSIVE _max_update(_, _, _), _min_update(_, _, _)
RECURSIVE _ab_max_update(_, _, _, _, _), _ab_min_update(_, _, _, _, _)

Moves == {NoMove} \cup ((0..2) \X (0..2))
SearchResults ==
  [val : Int, move : Moves, nodes : Nat, game : Games, empties : 0..9,
   plies : Nat, shrinks : BOOLEAN]
SearchArgs == [agent : AgentObjects, game : Games]
AbSearchArgs == [agent : AgentObjects, game : Games, alpha : Int, beta : Int]
\* The local variables of a node: the game, the actions of the loop, the
\* index of the current one, best_val, best_move and the nodes counted.
Locals ==
  [game : Games, actions : Seq((0..2) \X (0..2)), i : Nat, best_val : Int,
   best_move : Moves, nodes : Nat, plies : Nat, shrinks : BOOLEAN]
LoopArgs == [agent : AgentObjects, at : Locals]
AbLoopArgs == [agent : AgentObjects, at : Locals, alpha : Int, beta : Int]
UpdateArgs == [agent : AgentObjects, at : Locals, r : SearchResults]
AbUpdateArgs ==
  [agent : AgentObjects, at : Locals, alpha : Int, beta : Int,
   r : SearchResults]

MaxNode == [a \in SearchArgs |-> _max(a.agent, a.game)]
MinNode == [a \in SearchArgs |-> _min(a.agent, a.game)]
AbMaxNode == [a \in AbSearchArgs |-> _ab_max(a.agent, a.game, a.alpha, a.beta)]
AbMinNode == [a \in AbSearchArgs |-> _ab_min(a.agent, a.game, a.alpha, a.beta)]
MaxLoop == [a \in LoopArgs |-> _max_loop(a.agent, a.at)]
MinLoop == [a \in LoopArgs |-> _min_loop(a.agent, a.at)]
AbMaxLoop == [a \in AbLoopArgs |-> _ab_max_loop(a.agent, a.at, a.alpha, a.beta)]
AbMinLoop == [a \in AbLoopArgs |-> _ab_min_loop(a.agent, a.at, a.alpha, a.beta)]
MaxUpdate == [a \in UpdateArgs |-> _max_update(a.agent, a.at, a.r)]
MinUpdate == [a \in UpdateArgs |-> _min_update(a.agent, a.at, a.r)]
AbMaxUpdate ==
  [a \in AbUpdateArgs |-> _ab_max_update(a.agent, a.at, a.alpha, a.beta, a.r)]
AbMinUpdate ==
  [a \in AbUpdateArgs |-> _ab_min_update(a.agent, a.at, a.alpha, a.beta, a.r)]

\* return game.utility(self.player), None
Leaf_uncounted(self, g) ==
  [val |-> utility(g, self.player), move |-> NoMove, nodes |-> 0, game |-> g,
   empties |-> Len(get_legal_actions(g)), plies |-> 0, shrinks |-> TRUE]
Leaf(self, g) ==
  [val |-> utility(g, self.player), move |-> NoMove, nodes |-> 1, game |-> g,
   empties |-> Len(get_legal_actions(g)), plies |-> 0, shrinks |-> TRUE]

\* self.nodes_expanded += 1, the actions of the loop and best_move = None
Enter_uncounted(g, initial) ==
  [game |-> g, actions |-> get_legal_actions(g), i |-> 1, best_val |-> initial,
   best_move |-> NoMove, nodes |-> 0, plies |-> 0, shrinks |-> TRUE]
Enter(g, initial) ==
  [game |-> g, actions |-> get_legal_actions(g), i |-> 1, best_val |-> initial,
   best_move |-> NoMove, nodes |-> 1, plies |-> 0, shrinks |-> TRUE]

\* return best_val, best_move
Return(at) ==
  [val |-> at.best_val, move |-> at.best_move, nodes |-> at.nodes,
   game |-> at.game, empties |-> Len(at.actions), plies |-> at.plies,
   shrinks |-> at.shrinks]

\* child = game.clone(); child.make_move(*action)
Child(cl, action) == make_move(cl.new, action[1], action[2]).self

\* The object passed as game once the search below child has returned:
\* its board is the child's where the two share it.
After(g, cl, r) == IF cl.aliased THEN [g EXCEPT !.board = r.game.board] ELSE g

\* The locals after the turn of the loop on action i, whose search
\* returned r; up tells whether best_val and best_move are replaced.
Updated(at, r, up) ==
  [game |-> After(at.game, clone(at.game), r), actions |-> at.actions,
   i |-> at.i + 1,
   best_val |-> IF up THEN r.val ELSE at.best_val,
   best_move |-> IF up THEN at.actions[at.i] ELSE at.best_move,
   nodes |-> at.nodes + r.nodes,
   plies |-> IF r.plies + 1 > at.plies THEN r.plies + 1 ELSE at.plies,
   shrinks |-> /\ at.shrinks
               /\ r.shrinks
               /\ r.empties = Len(get_legal_actions(at.game)) - 1]

_max(self, g) ==
  IF is_terminal(g) THEN Leaf(self, g)
  ELSE MaxLoop[[agent |-> self, at |-> Enter(g, _max_initial)]]

_max_loop(self, at) ==
  IF at.i > Len(at.actions) THEN Return(at)
  ELSE MaxUpdate[[agent |-> self, at |-> at,
                  r |-> MinNode[[agent |-> self,
                                 game |-> Child(clone(at.game),
                                                at.actions[at.i])]]]]

_max_update(self, at, r) ==
  MaxLoop[[agent |-> self,
           at |-> Updated(at, r, improves_max(r.val, at.best_val))]]

_min(self, g) ==
  IF is_terminal(g) THEN Leaf(self, g)
  ELSE MinLoop[[agent |-> self, at |-> Enter(g, _min_initial)]]

_min_loop(self, at) ==
  IF at.i > Len(at.actions) THEN Return(at)
  ELSE MinUpdate[[agent |-> self, at |-> at,
                  r |-> MaxNode[[agent |-> self,
                                 game |-> Child(clone(at.game),
                                                at.actions[at.i])]]]]

_min_update(self, at, r) ==
  MinLoop[[agent |-> self,
           at |-> Updated(at, r, improves_min(r.val, at.best_val))]]

_ab_max(self, g, alpha, beta) ==
  IF is_terminal(g) THEN Leaf(self, g)
  ELSE AbMaxLoop[[agent |-> self, at |-> Enter(g, _ab_max_initial),
                  alpha |-> alpha, beta |-> beta]]

_ab_max_loop(self, at, alpha, beta) ==
  IF at.i > Len(at.actions) THEN Return(at)
  ELSE AbMaxUpdate[[agent |-> self, at |-> at, alpha |-> alpha, beta |-> beta,
                    r |-> AbMinNode[[agent |-> self,
                                     game |-> Child(clone(at.game),
                                                    at.actions[at.i]),
                                     alpha |-> alpha, beta |-> beta]]]]

_ab_max_update(self, at, alpha, beta, r) ==
  LET to == Updated(at, r, ab_improves_max(r.val, at.best_val)) IN
  IF beta_cutoff(to.best_val, beta) THEN Return(to)
  ELSE AbMaxLoop[[agent |-> self, at |-> to,
                  alpha |-> raise_alpha(alpha, to.best_val), beta |-> beta]]

_ab_min(self, g, alpha, beta) ==
  IF is_terminal(g) THEN Leaf(self, g)
  ELSE AbMinLoop[[agent |-> self, at |-> Enter(g, _ab_min_initial),
                  alpha |-> alpha, beta |-> beta]]

_ab_min_loop(self, at, alpha, beta) ==
  IF at.i > Len(at.actions) THEN Return(at)
  ELSE AbMinUpdate[[agent |-> self, at |-> at, alpha |-> alpha, beta |-> beta,
                    r |-> AbMaxNode[[agent |-> self,
                                     game |-> Child(clone(at.game),
                                                    at.actions[at.i]),
                                     alpha |-> alpha, beta |-> beta]]]]

_ab_min_update(self, at, alpha, beta, r) ==
  LET to == Updated(at, r, ab_improves_min(r.val, at.best_val)) IN
  IF alpha_cutoff(to.best_val, alpha) THEN Return(to)
  ELSE AbMinLoop[[agent |-> self, at |-> to, alpha |-> alpha,
                  beta |-> lower_beta(beta, to.best_val)]]

\* self.nodes_expanded = 0
Reset_skipped(self) == self
Reset(self) == [self EXCEPT !.nodes_expanded = 0]

\* The search from the root
Root_by_turn(self, g) ==
  IF self.use_alpha_beta
  THEN IF g.current_player = self.player
       THEN AbMaxNode[[agent |-> self, game |-> g, alpha |-> -Inf, beta |-> Inf]]
       ELSE AbMinNode[[agent |-> self, game |-> g, alpha |-> -Inf, beta |-> Inf]]
  ELSE IF g.current_player = self.player
       THEN MaxNode[[agent |-> self, game |-> g]]
       ELSE MinNode[[agent |-> self, game |-> g]]
Root(self, g) ==
  IF self.use_alpha_beta
  THEN AbMaxNode[[agent |-> self, game |-> g, alpha |-> -Inf, beta |-> Inf]]
  ELSE MaxNode[[agent |-> self, game |-> g]]

\* The agent and the game object after the call whose search returned r,
\* the move returned, and what the search did on the stack.
Found ==
  [a \in [agent : AgentObjects, r : SearchResults] |->
     [self |-> [a.agent EXCEPT !.nodes_expanded = @ + a.r.nodes],
      ret |-> a.r.move, game |-> a.r.game,
      stack |-> [plies |-> a.r.plies, shrinks |-> a.r.shrinks]]]

get_best_move(self, g) ==
  Found[[agent |-> Reset(self), r |-> Root(Reset(self), g)]]


\* get_nodes_expanded
get_nodes_expanded(self) == self.nodes_expanded

---------------------------------------------------------------------------
(* class TicTacToeGUI: the fields the game depends on.  The widgets, the   *)
(* log, the colours and the win animation are left out: no handler reads   *)
(* them back.  after is the set of the _do_ai_move callbacks that Tk holds *)
(* and has not yet run or cancelled, each known by the handle that         *)
(* root.after returned; _ai_job is the handle kept by the object, NoJob    *)
(* for None.  self.game and self.agent are None until _start_game, where   *)
(* the model holds a fresh game and an agent for 'O': no handler reads     *)
(* them while game_active is False.                                        *)

NoJob == 0
MaxJobs == 3
JobIds == 1..MaxJobs

GuiObjects ==
  [use_alpha_beta : BOOLEAN, human_player : Symbols, ai_player : Symbols,
   game_active : BOOLEAN, move_count : Nat, total_nodes : Nat,
   ai_move_count : Nat, _ai_job : {NoJob} \cup JobIds, after : SUBSET JobIds,
   agent : AgentObjects]

\* __init__
NewGui ==
  [use_alpha_beta |-> TRUE, human_player |-> X, ai_player |-> O,
   game_active |-> FALSE, move_count |-> 0, total_nodes |-> 0,
   ai_move_count |-> 0, _ai_job |-> NoJob, after |-> {},
   agent |-> NewAgent(O, TRUE)]

\* root.after(delay_ms, self._do_ai_move): a handle Tk has not given to a
\* callback still held, nor the one the object keeps.
NewJob(self) ==
  CHOOSE j \in JobIds :
    /\ j \notin self.after /\ j # self._ai_job
    /\ \A k \in JobIds : (k \notin self.after /\ k # self._ai_job) => j <= k

\* _schedule_ai_move
_schedule_ai_move(self) ==
  [self EXCEPT !._ai_job = NewJob(self), !.after = @ \cup {NewJob(self)}]

\* if self._ai_job: self.root.after_cancel(self._ai_job); self._ai_job = None
cancel_ai_job_skipped(self) == self
cancel_ai_job(self) ==
  IF self._ai_job # NoJob
  THEN [self EXCEPT !.after = @ \ {self._ai_job}, !._ai_job = NoJob]
  ELSE self

\* 'O' if self.human_player == 'X' else 'X'
ai_player_of(human_player) == IF human_player = X THEN O ELSE X

\* "Respect first-player setting": the current_player of the fresh game.
first_to_move(g, first, human_player, ai_player) ==
  IF first = "AI" /\ g.current_player = human_player
  THEN [g EXCEPT !.current_player = ai_player]
  ELSE IF first = "Human" /\ g.current_player # human_player
  THEN [g EXCEPT !.current_player = human_player]
  ELSE g

\* _start_game, with the values the three settings have when it runs;
\* the result is the object and its game.
_start_game(self, human_symbol, first_player, use_alpha_beta) ==
  LET started ==
        [cancel_ai_job(self) EXCEPT
           !.use_alpha_beta = use_alpha_beta,
           !.human_player = human_symbol,
           !.ai_player = ai_player_of(human_symbol),
           !.agent = NewAgent(ai_player_of(human_symbol), use_alpha_beta),
           !.game_active = TRUE,
           !.move_count = 0,
           !.total_nodes = 0,
           !.ai_move_count = 0]
      g == first_to_move(NewGame, first_player, started.human_player,
                         started.ai_player)
  IN [self |-> IF g.current_player = started.ai_player
               THEN _schedule_ai_move(started) ELSE started,
      game |-> g]

\* _end_game
_end_game_stays_active(self) == self
_end_game(self) == [self EXCEPT !.game_active = FALSE]

\* _place_move
_place_move(self, g, row, col) ==
  [self |-> [self EXCEPT !.move_count = @ + 1],
   game |-> make_move(g, row, col).self]

\* _on_cell_click
_on_cell_click_any_turn(self, g, row, col) ==
  IF ~self.game_active THEN [self |-> self, game |-> g]
  ELSE IF ~is_valid_move(g, row, col) THEN [self |-> self, game |-> g]
  ELSE LET placed == _place_move(self, g, row, col) IN
       IF is_terminal(placed.game)
       THEN [self |-> _end_game(placed.self), game |-> placed.game]
       ELSE [self |-> _schedule_ai_move(placed.self), game |-> placed.game]
_on_cell_click(self, g, row, col) ==
  IF ~self.game_active THEN [self |-> self, game |-> g]
  ELSE IF g.current_player # self.human_player THEN [self |-> self, game |-> g]
  ELSE IF ~is_valid_move(g, row, col) THEN [self |-> self, game |-> g]
  ELSE LET placed == _place_move(self, g, row, col) IN
       IF is_terminal(placed.game)
       THEN [self |-> _end_game(placed.self), game |-> placed.game]
       ELSE [self |-> _schedule_ai_move(placed.self), game |-> placed.game]

\* _do_ai_move after the guards, the search having returned found.
ai_moves ==
  [a \in [self : GuiObjects,
          found : [self : AgentObjects, ret : Moves, game : Games,
                   stack : [plies : Nat, shrinks : BOOLEAN]]] |->
     LET counted ==
           [a.self EXCEPT
              !.agent = a.found.self,
              !.total_nodes = @ + get_nodes_expanded(a.found.self),
              !.ai_move_count = @ + 1]
         placed == _place_move(counted, a.found.game, a.found.ret[1],
                               a.found.ret[2])
     IN IF is_terminal(placed.game)
        THEN [self |-> _end_game(placed.self), game |-> placed.game]
        ELSE placed]

\* _do_ai_move
_do_ai_move(self, g) ==
  IF ~self.game_active \/ is_terminal(g) THEN [self |-> self, game |-> g]
  ELSE IF g.current_player # self.ai_player THEN [self |-> self, game |-> g]
  ELSE ai_moves[[self |-> self, found |-> get_best_move(self.agent, g)]]

---------------------------------------------------------------------------
(* The harness of the game object alone: calls of make_move with any       *)
(* coordinates, on the game as it stands, finished or not.                 *)

NoCall == [op |-> "none", args |-> <<>>, ret |-> FALSE, before |-> NewGame]

NewAgents(player) == [f \in BOOLEAN |-> NewAgent(player, f)]
NoMoves == [f \in BOOLEAN |-> NoMove]
NoRecursion == [f \in BOOLEAN |-> [plies |-> 0, shrinks |-> TRUE]]

Init ==
  /\ game = NewGame
  /\ call = NoCall
  /\ agents = NewAgents(X)
  /\ move = NoMoves
  /\ searched = FALSE
  /\ optimal = TRUE
  /\ recursion = NoRecursion
  /\ gui = NewGui

MakeMoveCall(row, col) ==
  LET r == make_move(game, row, col) IN
  /\ game' = r.self
  /\ call' = [op |-> "make_move", args |-> <<row, col>>, ret |-> r.ret,
              before |-> game]
  /\ UNCHANGED <<agents, move, searched, optimal, recursion, gui>>

Next == \E row \in Coords, col \in Coords : MakeMoveCall(row, col)

Spec == Init /\ [][Next]_vars

---------------------------------------------------------------------------
(* The harness of the pure queries: any board over {' ', 'X', 'O'} with    *)
(* either player to move, and one query on it.                             *)

InitBoards ==
  /\ game \in Games
  /\ call = NoCall
  /\ agents = NewAgents(X)
  /\ move = NoMoves
  /\ searched = FALSE
  /\ optimal = FALSE
  /\ recursion = NoRecursion
  /\ gui = NewGui

Query(op, args, ret) ==
  /\ call.op = "none"
  /\ call' = [op |-> op, args |-> args, ret |-> ret, before |-> game]
  /\ UNCHANGED <<game, agents, move, searched, optimal, recursion, gui>>

CheckWinnerCall == Query("check_winner", <<>>, check_winner(game))
IsTerminalCall == Query("is_terminal", <<>>, is_terminal(game))
GetLegalActionsCall == Query("get_legal_actions", <<>>, get_legal_actions(game))
IsValidMoveCall(row, col) ==
  Query("is_valid_move", <<row, col>>, is_valid_move(game, row, col))
UtilityCall(player) == Query("utility", <<player>>, utility(game, player))
GetWinningLineCall == Query("get_winning_line", <<>>, get_winning_line(game))

NextBoards ==
  \/ CheckWinnerCall
  \/ IsTerminalCall
  \/ GetLegalActionsCall
  \/ \E row \in Coords, col \in Coords : IsValidMoveCall(row, col)
  \/ \E player \in Symbols : UtilityCall(player)
  \/ GetWinningLineCall

SpecBoards == InitBoards /\ [][NextBoards]_vars

---------------------------------------------------------------------------
(* The harness of the agents: a game played from the empty board by legal  *)
(* moves until it is finished.  On any state of it, an agent with pruning  *)
(* and an agent without, both built for the player to move, are asked for  *)
(* their move, the pruning one first.  A move of the game discards the     *)
(* agents and builds the two of the next player.                           *)

\* The two calls in order, the second on the object as the first left it.
GetBestMoveCall ==
  /\ ~searched
  /\ \E pruned \in {get_best_move(agents[TRUE], game)} :
       \E plain \in {get_best_move(agents[FALSE], pruned.game)} :
         /\ game' = plain.game
         /\ agents' = [f \in BOOLEAN |-> IF f THEN pruned.self ELSE plain.self]
         /\ move' = [f \in BOOLEAN |-> IF f THEN pruned.ret ELSE plain.ret]
         /\ recursion' =
              [f \in BOOLEAN |-> IF f THEN pruned.stack ELSE plain.stack]
         /\ call' = [op |-> "get_best_move", args |-> <<>>, ret |-> move',
                     before |-> game]
  /\ searched' = TRUE
  /\ UNCHANGED <<optimal, gui>>

\* The agent with flag f is asked once more on the state it has searched.
AskAgain(f) ==
  /\ searched /\ call.args = <<>>
  /\ \E again \in {get_best_move(agents[f], game)} :
       /\ game' = again.game
       /\ agents' = [agents EXCEPT ![f] = again.self]
       /\ move' = [move EXCEPT ![f] = again.ret]
       /\ recursion' = [recursion EXCEPT ![f] = again.stack]
       /\ call' = [op |-> "get_best_move", args |-> <<f>>, ret |-> move',
                   before |-> game]
  /\ UNCHANGED <<searched, optimal, gui>>

PlayMove(row, col) ==
  /\ ~is_terminal(game)
  /\ is_valid_move(game, row, col)
  /\ game' = make_move(game, row, col).self
  /\ optimal' = (optimal /\ searched /\ \E f \in BOOLEAN : move[f] = <<row, col>>)
  /\ agents' = NewAgents(game'.current_player)
  /\ move' = NoMoves
  /\ recursion' = NoRecursion
  /\ searched' = FALSE
  /\ call' = NoCall
  /\ UNCHANGED gui

NextSearch ==
  \/ GetBestMoveCall
  \/ AskAgain(TRUE)
  \/ \E row \in 0..2, col \in 0..2 : PlayMove(row, col)

SpecSearch == Init /\ [][NextSearch]_vars

---------------------------------------------------------------------------
(* The harness of the agents on any board: the fresh board, and every      *)
(* board over {' ', 'X', 'O'} with at most MaxEmpty empty cells, reachable *)
(* in a game or not, with either player to move.  The two agents are built *)
(* for either symbol, the player to move or the other, and asked for their *)
(* move, and then either of them once more.                               *)

MaxEmpty == 3

InitAny ==
  /\ game \in {g \in Games :
                 g = NewGame \/ Len(get_legal_actions(g)) <= MaxEmpty}
  /\ call = NoCall
  /\ \E player \in Symbols : agents = NewAgents(player)
  /\ move = NoMoves
  /\ searched = FALSE
  /\ optimal = FALSE
  /\ recursion = NoRecursion
  /\ gui = NewGui

NextAny ==
  \/ GetBestMoveCall
  \/ \E f \in BOOLEAN : AskAgain(f)

SpecAny == InitAny /\ [][NextAny]_vars

---------------------------------------------------------------------------
(* The harness of the window: the user chooses the settings and presses    *)
(* New Game or Reset Board, clicks cells, and Tk runs the callbacks it     *)
(* holds, in any order.  The pruning checkbox is disabled while a game is  *)
(* active, so that a game started then keeps the setting.                  *)

\* call keeps the most recent handler that changed the window or its game;
\* one that returns at its guards leaves every variable as it is.
Handled(op, args, res) ==
  /\ gui' = res.self
  /\ game' = res.game
  /\ call' = IF res.self = gui /\ res.game = game THEN call
             ELSE [op |-> op, args |-> args, ret |-> FALSE, before |-> game]
  /\ UNCHANGED <<agents, move, searched, optimal, recursion>>

StartGame(human_symbol, first_player, use_alpha_beta) ==
  /\ gui.game_active => use_alpha_beta = gui.use_alpha_beta
  /\ \E res \in {_start_game(gui, human_symbol, first_player,
                              use_alpha_beta)} :
       /\ gui' = res.self
       /\ game' = res.game
       /\ call' = [op |-> "_start_game", args |-> <<human_symbol, first_player>>,
                   ret |-> FALSE, before |-> res.game]
  /\ UNCHANGED <<agents, move, searched, optimal, recursion>>

CellClick(row, col) ==
  \E res \in {_on_cell_click(gui, game, row, col)} :
    Handled("_on_cell_click", <<row, col>>, res)

\* Tk runs one of the callbacks it holds.
AiCallback ==
  \E job \in gui.after :
    \E res \in {_do_ai_move([gui EXCEPT !.after = @ \ {job}], game)} :
      Handled("_do_ai_move", <<>>, res)

NextGui ==
  \/ \E human_symbol \in Symbols, first_player \in {"Human", "AI"},
        use_alpha_beta \in BOOLEAN :
        StartGame(human_symbol, first_player, use_alpha_beta)
  \/ \E row \in 0..2, col \in 0..2 : CellClick(row, col)
  \/ AiCallback

SpecGui == Init /\ [][NextGui]_vars

---------------------------------------------------------------------------
(* What the claims speak of, stated on the board itself. *)

CellSet == (0..2) \X (0..2)
CellAt(g, a) == g.board[a[1]][a[2]]
EmptyCells(g) == {a \in CellSet : CellAt(g, a) = E}
Marked(g) == 9 - Cardinality(EmptyCells(g))

\* The eight lines: rows, columns, main diagonal, anti-diagonal.
Lines ==
  << << <<0, 0>>, <<0, 1>>, <<0, 2>> >>, << <<1, 0>>, <<1, 1>>, <<1, 2>> >>,
     << <<2, 0>>, <<2, 1>>, <<2, 2>> >>, << <<0, 0>>, <<1, 0>>, <<2, 0>> >>,
     << <<0, 1>>, <<1, 1>>, <<2, 1>> >>, << <<0, 2>>, <<1, 2>>, <<2, 2>> >>,
     << <<0, 0>>, <<1, 1>>, <<2, 2>> >>, << <<0, 2>>, <<1, 1>>, <<2, 0>> >> >>

\* Line i holds three marks of p.
Holds(g, i, p) == \A k \in 1..3 : CellAt(g, Lines[i][k]) = p
HasLine(g, p) == \E i \in 1..8 : Holds(g, i, p)
CompleteLines(g) == {i \in 1..8 : \E p \in Symbols : Holds(g, i, p)}
Least(S) == CHOOSE i \in S : \A j \in S : i <= j

\* The empty cells where a mark of p completes three in a row.
Completing(g, p) ==
  {a \in EmptyCells(g) :
     \E i \in 1..8 : \A k \in 1..3 :
        Lines[i][k] = a \/ CellAt(g, Lines[i][k]) = p}

\* Position of a cell in row-major order, and the first cell of a set.
Rank(a) == 3 * a[1] + a[2]
FirstCell(S) == CHOOSE a \in S : \A b \in S : Rank(a) <= Rank(b)

\* The game after the player to move has marked cell a.
Played(g, a) == make_move(g, a[1], a[2]).self

\* p wins from g whatever the other player does.
RECURSIVE CertainWin(_, _)
CertainWin(g, p) ==
  IF HasLine(g, p) THEN TRUE
  ELSE IF HasLine(g, OtherPlayer(p)) \/ EmptyCells(g) = {} THEN FALSE
  ELSE IF g.current_player = p
       THEN \E a \in EmptyCells(g) : CertainWin(Played(g, a), p)
       ELSE \A a \in EmptyCells(g) : CertainWin(Played(g, a), p)

InRange(row, col) == row \in 0..2 /\ col \in 0..2
IsMove(m) == Len(m) = 2

---------------------------------------------------------------------------
(* The claims *)

\* C1: on every non-terminal state of a game played by legal moves from the
\* empty board, the agent of the player to move returns the same (row, col)
\* with alpha-beta pruning as without.
C1_SameMove ==
  (searched /\ ~is_terminal(game)) => move[TRUE] = move[FALSE]

C1_Witness ==
  /\ searched /\ ~is_terminal(game)
  /\ IsMove(move[TRUE])
  /\ agents[TRUE].nodes_expanded < agents[FALSE].nodes_expanded

\* C2: on every reachable non-terminal state the move get_best_move returns,
\* with either pruning setting, is one is_valid_move accepts on that state,
\* and make_move with it on that state returns True.
C2_BestMoveIsValid ==
  (searched /\ ~is_terminal(game)) =>
    \A f \in BOOLEAN :
      /\ IsMove(move[f])
      /\ is_valid_move(game, move[f][1], move[f][2])
      /\ make_move(game, move[f][1], move[f][2]).ret = TRUE

C2_Witness ==
  /\ searched /\ ~is_terminal(game) /\ Marked(game) = 8
  /\ is_valid_move(game, move[FALSE][1], move[FALSE][2])

\* C3: a game in which every mark, from the empty board on, is placed where
\* the agent of the player to move (pruning or not) says, never shows a line
\* of X or of O, and is a draw when it is over.
C3_SelfPlayDraws ==
  optimal =>
    /\ check_winner(game) \notin {X, O}
    /\ is_terminal(game) => check_winner(game) = Draw

C3_Witness ==
  optimal /\ is_terminal(game) /\ Marked(game) = 9 /\ check_winner(game) = Draw

\* C4 as stated: where the agent to move has a cell that completes three in
\* a row, get_best_move returns a cell that completes three in a row.
C4_Original ==
  (searched /\ ~is_terminal(game)
     /\ Completing(game, game.current_player) # {}) =>
    \A f \in BOOLEAN : move[f] \in Completing(game, game.current_player)

\* The first empty cell in row-major order after which the player to move
\* wins whatever the other player does.
FirstCertainWin(g) ==
  FirstCell({a \in EmptyCells(g) : CertainWin(Played(g, a), g.current_player)})

\* C4, amended: where the agent to move has a cell that completes three in a
\* row, get_best_move returns, with and without pruning, the first empty
\* cell in row-major order after which the agent wins whatever the opponent
\* plays: a cell that completes three in a row unless an earlier cell also
\* forces the win.
C4_FirstCertainWin ==
  (searched /\ ~is_terminal(game)
     /\ Completing(game, game.current_player) # {}) =>
    \A f \in BOOLEAN :
      /\ move[f] = FirstCertainWin(game)
      /\ \/ move[f] \in Completing(game, game.current_player)
         \/ \A a \in Completing(game, game.current_player) :
              Rank(move[f]) < Rank(a)

C4_Witness ==
  /\ searched /\ ~is_terminal(game)
  /\ Completing(game, game.current_player) # {}
  /\ move[TRUE] \notin Completing(game, game.current_player)
  /\ ~is_terminal(Played(game, move[TRUE]))

\* The state of C5: the agent to move cannot complete three in a row, and
\* the opponent could at exactly one cell.
OneThreat(g) ==
  /\ Completing(g, g.current_player) = {}
  /\ Cardinality(Completing(g, OtherPlayer(g.current_player))) = 1
TheBlock(g) == CHOOSE a \in Completing(g, OtherPlayer(g.current_player)) : TRUE

\* C5 as stated: in such a state get_best_move returns the blocking cell.
C5_Original ==
  (searched /\ ~is_terminal(game) /\ OneThreat(game)) =>
    \A f \in BOOLEAN : move[f] = TheBlock(game)

\* C5, amended: in such a state get_best_move returns the blocking cell,
\* unless the opponent wins whatever the agent does even after the block,
\* and then it returns the first empty cell in row-major order.
C5_BlockUnlessLost ==
  (searched /\ ~is_terminal(game) /\ OneThreat(game)) =>
    \A f \in BOOLEAN :
      move[f] = IF CertainWin(Played(game, TheBlock(game)),
                              OtherPlayer(game.current_player))
                THEN FirstCell(EmptyCells(game))
                ELSE TheBlock(game)

C5_Witness ==
  /\ searched /\ ~is_terminal(game) /\ OneThreat(game)
  /\ IsMove(move[TRUE]) /\ move[TRUE] # TheBlock(game)

\* C6: get_best_move, with either pruning setting, leaves the board and the
\* current_player of the game it is given as they were: a clone's board is
\* not the board it was cloned from.
C6_SearchLeavesGame ==
  /\ call.op = "get_best_move" => game = call.before
  /\ ~clone(game).aliased
  /\ clone(game).new = game

C6_Witness ==
  /\ call.op = "get_best_move" /\ game = call.before
  /\ ~is_terminal(game)
  /\ agents[TRUE].nodes_expanded > 1 /\ agents[FALSE].nodes_expanded > 1

\* The cell is outside the board or, before the call, was occupied.
Refused(c) ==
  IF InRange(c.args[1], c.args[2])
  THEN c.before.board[c.args[1]][c.args[2]] # E
  ELSE TRUE

\* C7: make_move on an occupied cell, or with a coordinate outside 0..2
\* (negative ones too), returns False and leaves every cell and
\* current_player as they were; the same call again is refused again and
\* changes nothing.
C7_RefusedMoveChangesNothing ==
  (call.op = "make_move" /\ Refused(call)) =>
    /\ call.ret = FALSE
    /\ game = call.before
    /\ make_move(game, call.args[1], call.args[2]) = [self |-> game, ret |-> FALSE]

C7_Witness ==
  /\ call.op = "make_move" /\ call.ret = FALSE
  /\ InRange(call.args[1], call.args[2])
  /\ game.board[call.args[1]][call.args[2]] = O
  /\ game.current_player = O

\* C8: make_move on an empty cell of the board returns True, sets that cell
\* to the symbol that was to move, leaves the other eight cells alone, and
\* makes the other symbol the one to move.
C8_AcceptedMove ==
  (call.op = "make_move" /\ ~Refused(call)) =>
    /\ call.ret = TRUE
    /\ CellAt(game, call.args) = call.before.current_player
    /\ \A a \in CellSet \ {call.args} : CellAt(game, a) = CellAt(call.before, a)
    /\ call.before.current_player = X => game.current_player = O
    /\ call.before.current_player = O => game.current_player = X

C8_Witness ==
  /\ call.op = "make_move" /\ call.ret = TRUE
  /\ call.before.current_player = O /\ game.current_player = X
  /\ CellAt(game, call.args) = O

\* What C9 says check_winner returns: the symbol on the first complete line
\* in the order rows, columns, main diagonal, anti-diagonal; Draw when no
\* line is complete and no cell is empty; None otherwise.
ExpectedWinner(g) ==
  IF CompleteLines(g) # {} THEN CellAt(g, Lines[Least(CompleteLines(g))][1])
  ELSE IF EmptyCells(g) = {} THEN Draw
  ELSE None

\* C9: on every 3x3 board over {' ', 'X', 'O'} check_winner returns that.
C9_CheckWinner ==
  call.op = "check_winner" => call.ret = ExpectedWinner(game)

C9_Witness ==
  /\ call.op = "check_winner" /\ call.ret = O
  /\ Holds(game, 2, O) /\ Holds(game, 3, X)

\* C10: on every board is_terminal() is true exactly when check_winner() is
\* not None; a board with no legal move never has check_winner() None, and
\* check_winner() is Draw only with no legal move.
C10_TerminalIffWinner ==
  /\ call.op = "is_terminal" => (call.ret <=> check_winner(game) # None)
  /\ ~(get_legal_actions(game) = <<>> /\ check_winner(game) = None)
  /\ check_winner(game) = Draw => get_legal_actions(game) = <<>>

C10_Witness ==
  /\ call.op = "is_terminal" /\ call.ret = TRUE
  /\ check_winner(game) = Draw /\ get_legal_actions(game) = <<>>

\* C11: on every board and for each player p, utility(p) is +10 exactly when
\* check_winner() is p, -10 exactly when it is the other symbol, and 0
\* exactly when it is Draw or None; utility('X') + utility('O') is 0.
C11_UtilityBySymbol ==
  /\ call.op = "utility" =>
       LET p == call.args[1]
           q == IF p = X THEN O ELSE X
       IN /\ call.ret = 10 <=> check_winner(game) = p
          /\ call.ret = -10 <=> check_winner(game) = q
          /\ call.ret = 0 <=> check_winner(game) \in {Draw, None}
  /\ utility(game, X) + utility(game, O) = 0

C11_Witness ==
  /\ call.op = "utility" /\ call.args = <<O>> /\ call.ret = -10
  /\ check_winner(game) = X /\ utility(game, X) = 10

\* C16: on every board get_winning_line() returns None exactly when
\* check_winner() is Draw or None, and otherwise the first complete line in
\* the order rows, columns, diagonals, whose three cells hold the symbol
\* check_winner() returns.
C16_WinningLine ==
  call.op = "get_winning_line" =>
    /\ call.ret = NoLine <=> check_winner(game) \in {Draw, None}
    /\ call.ret # NoLine =>
         /\ call.ret = Lines[Least(CompleteLines(game))]
         /\ \A k \in 1..3 : CellAt(game, call.ret[k]) = check_winner(game)

C16_Witness ==
  /\ call.op = "get_winning_line" /\ call.ret = Lines[1]
  /\ Holds(game, 1, X) /\ Holds(game, 4, X)

\* The number of cells that hold symbol s.
Count(g, s) == Cardinality({a \in CellSet : CellAt(g, a) = s})

\* C17: a fresh TicTacToe has nine empty cells and current_player X; after
\* any sequence of make_move calls, accepted or refused, current_player is X
\* exactly when X and O have as many marks, and O exactly when X has one
\* more; no other difference of the counts is reached.
C17_TurnFollowsCounts ==
  /\ call.op = "none" => (Count(game, E) = 9 /\ game.current_player = X)
  /\ game.current_player = X <=> Count(game, X) = Count(game, O)
  /\ game.current_player = O <=> Count(game, X) = Count(game, O) + 1

C17_Witness ==
  /\ call.op = "make_move" /\ call.ret = FALSE /\ game = call.before
  /\ game.current_player = O /\ Count(game, X) = 5 /\ Count(game, O) = 4

\* C18 as stated: in a game played by legal moves from the empty board that
\* stops when it is terminal, at most one of the eight lines is complete.
C18_Original == Cardinality(CompleteLines(game)) <= 1

\* C18, amended: in such a game at most two of the eight lines are
\* complete, and two complete lines hold the same symbol and cross in one
\* cell.
C18_LinesCross ==
  /\ Cardinality(CompleteLines(game)) <= 2
  /\ \A i \in CompleteLines(game), j \in CompleteLines(game) :
       /\ CellAt(game, Lines[i][1]) = CellAt(game, Lines[j][1])
       /\ \E k \in 1..3, l \in 1..3 : Lines[i][k] = Lines[j][l]

C18_Witness ==
  /\ Cardinality(CompleteLines(game)) = 2 /\ is_terminal(game)
  /\ Holds(game, 1, X) /\ Holds(game, 4, X)

\* The greatest number of a set, or the least.
Extreme ==
  [a \in [max : BOOLEAN, of : SUBSET {-10, 0, 10}] |->
     IF a.max THEN CHOOSE v \in a.of : \A w \in a.of : w <= v
     ELSE CHOOSE v \in a.of : \A w \in a.of : v <= w]

\* The value of a position for player: utility(player) on a terminal
\* position, else the greatest value of the positions one mark later where
\* max is set, the least where it is not, the next layer being the other
\* kind.
TreeValue[a \in [game : Games, player : Symbols, max : BOOLEAN]] ==
  IF is_terminal(a.game) THEN utility(a.game, a.player)
  ELSE Extreme[[max |-> a.max,
                of |-> {TreeValue[[game |-> Played(a.game, c),
                                   player |-> a.player, max |-> ~a.max]] :
                          c \in EmptyCells(a.game)}]]

\* The empty cells of g, each with the value for player of the position
\* after the player to move has marked it, the opponent moving next.
ValuedMoves(g, player) ==
  {<<c, TreeValue[[game |-> Played(g, c), player |-> player, max |-> FALSE]]>> :
     c \in EmptyCells(g)}

\* The first cell in row-major order among those of greatest value.
FirstBest(vm) ==
  FirstCell({q[1] : q \in {r \in vm : \A o \in vm : o[2] <= r[2]}})

\* C13: on every reachable non-terminal state the agent of the player to
\* move returns, with and without pruning, the first legal move in row-major
\* order among the legal moves whose full-depth minimax value is the
\* greatest: a later move of equal value does not replace an earlier one.
C13_FirstOfTheBest ==
  (searched /\ ~is_terminal(game)) =>
    \A vm \in {ValuedMoves(game, game.current_player)} :
      \A f \in BOOLEAN : move[f] = FirstBest(vm)

C13_Witness ==
  /\ searched /\ ~is_terminal(game) /\ Marked(game) = 2
  /\ \E vm \in {ValuedMoves(game, game.current_player)} :
       /\ Cardinality({q \in vm : \A o \in vm : o[2] <= q[2]}) > 1
       /\ move[FALSE] = FirstBest(vm)
       /\ move[FALSE] # <<0, 0>>

\* C14: on every reachable non-terminal state the nodes_expanded read after
\* get_best_move with pruning is at most the one read after get_best_move
\* without pruning, on the same state and for the same symbol, also when
\* the agent has searched before.
C14_PruningExpandsNoMore ==
  (searched /\ ~is_terminal(game)) =>
    /\ agents[TRUE].player = agents[FALSE].player
    /\ get_nodes_expanded(agents[TRUE]) <= get_nodes_expanded(agents[FALSE])

C14_Witness ==
  /\ searched /\ ~is_terminal(game) /\ call.args = <<TRUE>>
  /\ get_nodes_expanded(agents[TRUE]) = get_nodes_expanded(agents[FALSE])
  /\ get_nodes_expanded(agents[TRUE]) > 2

\* C15: every get_best_move call returns, with and without pruning and
\* from every board: each call of the recursion is made on a game with
\* exactly one empty cell fewer than its caller's, and the calls are never
\* nested deeper than the number of empty cells of the board given, which
\* is at most 9.
C15_RecursionShrinks ==
  call.op = "get_best_move" =>
    \A f \in BOOLEAN :
      /\ recursion[f].shrinks
      /\ recursion[f].plies <= Count(call.before, E)
      /\ recursion[f].plies <= 9

C15_Witness ==
  /\ call.op = "get_best_move" /\ call.before = NewGame
  /\ recursion[TRUE].plies = 9 /\ recursion[FALSE].plies = 9
  /\ recursion[TRUE].shrinks /\ recursion[FALSE].shrinks

\* C20: get_best_move takes its root as a MAX node for the agent's own
\* utility whatever current_player is: where current_player is the
\* opponent's symbol it returns the first cell in row-major order among the
\* empty cells that, filled with the opponent's symbol, lead to the
\* greatest value for the agent, the next layer taking the least.
C20_RootIsMax ==
  (/\ searched /\ ~is_terminal(game)
   /\ \A f \in BOOLEAN : agents[f].player # game.current_player) =>
    \A vm \in {ValuedMoves(game, agents[TRUE].player)} :
      \A f \in BOOLEAN : move[f] = FirstBest(vm)

C20_Witness ==
  /\ searched /\ ~is_terminal(game)
  /\ agents[TRUE].player = X /\ game.current_player = O
  /\ move[TRUE] \in Completing(game, X)
  /\ move[TRUE] \notin Completing(game, O)
  /\ CellAt(Played(game, move[TRUE]), move[TRUE]) = O

\* C12, as stated: in every state of a game started by _start_game, for
\* every choice of human symbol and first mover, and continued by clicks
\* and AI moves, the number of X marks is the number of O marks or one more.
C12_XMovesFirst ==
  \/ Count(game, X) = Count(game, O)
  \/ Count(game, X) = Count(game, O) + 1

\* C19: in every game played through the window, for every choice of human
\* symbol, first mover and pruning and every sequence of clicks,
\* check_winner() is never the human's symbol.
C19_AgentNeverLoses == check_winner(game) # gui.human_player

C19_Witness ==
  /\ call.op = "_do_ai_move" /\ ~gui.game_active
  /\ check_winner(game) = gui.ai_player /\ gui.ai_player = X
  /\ ~gui.use_alpha_beta /\ gui.ai_move_count = 3 /\ gui.move_count = 6

\* C21: get_best_move on a terminal state, a line complete or the board
\* full, returns no move, leaves the state as it was and leaves
\* nodes_expanded at 1, with pruning and without.
C21_TerminalSearch ==
  (call.op = "get_best_move" /\ is_terminal(call.before)) =>
    /\ game = call.before
    /\ \A f \in BOOLEAN :
         move[f] = NoMove /\ get_nodes_expanded(agents[f]) = 1

C21_Witness ==
  /\ call.op = "get_best_move" /\ call.args = <<>>
  /\ check_winner(call.before) = O
  /\ Len(get_legal_actions(call.before)) = 3
  /\ move = NoMoves
  /\ get_nodes_expanded(agents[FALSE]) = 1

\* C22: nodes_expanded is set to 0 when a get_best_move call starts and
\* grows during it, so that after any call it is at least 1, and a second
\* call by the same agent on the same state leaves the value of the first,
\* not the sum.
C22_CountsOneCall ==
  [][call'.op = "get_best_move" =>
       /\ \A f \in BOOLEAN : get_nodes_expanded(agents'[f]) >= 1
       /\ (call.op = "get_best_move" /\ game = call.before) =>
            \A f \in BOOLEAN :
              get_nodes_expanded(agents'[f]) = get_nodes_expanded(agents[f])]_vars

C22_Witness ==
  /\ call.op = "get_best_move" /\ call.args = <<FALSE>>
  /\ game = call.before
  /\ Len(get_legal_actions(game)) = 3
  /\ get_nodes_expanded(agents[FALSE]) > 1

\* The positions of the game tree strictly below a.game that are reached
\* through its empty cells a.cells, a position counted once for every way
\* of reaching it; play stops at a terminal position.
PositionsBelow[a \in [game : Games, cells : SUBSET CellSet]] ==
  IF a.cells = {} THEN 0
  ELSE LET c == CHOOSE c \in a.cells : TRUE
           child == Played(a.game, c)
       IN 1
          + (IF is_terminal(child) THEN 0
             ELSE PositionsBelow[[game |-> child, cells |-> EmptyCells(child)]])
          + PositionsBelow[[game |-> a.game, cells |-> a.cells \ {c}]]

\* The positions of the full game tree rooted at g, g included.
Positions(g) ==
  IF is_terminal(g) THEN 1
  ELSE 1 + PositionsBelow[[game |-> g, cells |-> EmptyCells(g)]]

\* C23: after get_best_move without pruning on a state, nodes_expanded is
\* the number of positions of the full game tree rooted at the state, one
\* for every MAX or MIN evaluation, those of terminal leaves included; a
\* state with one empty cell that is not terminal gives 2.
C23_CountsTheTree ==
  (call.op = "get_best_move" /\ call.args = <<>>) =>
    /\ get_nodes_expanded(agents[FALSE]) = Positions(call.before)
    /\ (~is_terminal(call.before) /\ Cardinality(EmptyCells(call.before)) = 1)
         => get_nodes_expanded(agents[FALSE]) = 2

C23_Witness ==
  /\ call.op = "get_best_move" /\ call.args = <<>>
  /\ ~is_terminal(call.before)
  /\ Cardinality(EmptyCells(call.before)) = 3
  /\ get_nodes_expanded(agents[FALSE]) = 14
  /\ get_nodes_expanded(agents[TRUE]) < 14

\* C24, as stated: a get_best_move call without pruning expands fewer than
\* 50,000 nodes, on the empty board and on every board holding one mark
\* in particular.
C24_Original ==
  call.op = "get_best_move" => get_nodes_expanded(agents[FALSE]) < 50000

\* C24: a get_best_move call without pruning expands 549,946 nodes on the
\* empty board, between 55,505 and 63,905 on a board holding one mark, and
\* fewer than 50,000, at most 9,400, on a board holding two marks or more.
C24_NodesByMarks ==
  call.op = "get_best_move" =>
    LET nodes == get_nodes_expanded(agents[FALSE]) IN
    /\ Marked(call.before) = 0 => nodes = 549946
    /\ Marked(call.before) = 1 => nodes >= 55505 /\ nodes <= 63905
    /\ Marked(call.before) >= 2 => nodes <= 9400 /\ nodes < 50000

C24_Witness ==
  /\ call.op = "get_best_move"
  /\ Marked(call.before) = 1
  /\ CellAt(call.before, <<1, 1>>) = X
  /\ get_nodes_expanded(agents[FALSE]) = 55505

\* C25: in a game of the window the marks alternate between human and AI.
\* A click changes the game only when game_active holds, current_player
\* is the human's symbol and the cell is empty; the AI callback places a
\* mark only when game_active holds, the state is not terminal and
\* current_player is the AI's symbol.  The mark placed is that of
\* current_player, which passes to the other side, so that neither side
\* places two marks in a row; any other click or callback leaves board,
\* current_player and move_count as they are.
C25_StrictAlternation ==
  [][((game' # game \/ gui'.move_count # gui.move_count)
        /\ call'.op # "_start_game") =>
       /\ gui.game_active
       /\ gui.human_player # gui.ai_player
       /\ gui'.move_count = gui.move_count + 1
       /\ \E a \in EmptyCells(game) :
            /\ game'.board = [game.board EXCEPT ![a[1]][a[2]] =
                                                  game.current_player]
            /\ call'.op = "_on_cell_click" => call'.args = a
       /\ game'.current_player # game.current_player
       /\ \/ /\ call'.op = "_on_cell_click"
             /\ game.current_player = gui.human_player
          \/ /\ call'.op = "_do_ai_move"
             /\ ~is_terminal(game)
             /\ game.current_player = gui.ai_player]_vars

C25_Witness ==
  /\ gui.game_active /\ call.op = "_do_ai_move"
  /\ gui.move_count = 4 /\ gui.ai_move_count = 2
  /\ Count(game, gui.human_player) = 2 /\ Count(game, gui.ai_player) = 2
  /\ game.current_player = gui.human_player
  /\ gui.human_player = O

\* C26: in an active game of the window an AI callback is pending exactly
\* when current_player is the AI's symbol, and never more than one is
\* pending: _start_game cancels the pending one, so that none scheduled in
\* an earlier game is left to place a mark in a later one, and the game
\* never waits for the AI without a callback.
C26_OneCallbackOnAiTurn ==
  /\ Cardinality(gui.after) <= 1
  /\ gui.after # {} => gui.after = {gui._ai_job}
  /\ gui.game_active =>
       (gui.after # {} <=> game.current_player = gui.ai_player)

C26_Witness ==
  /\ call.op = "_on_cell_click"
  /\ gui.game_active /\ game.current_player = gui.ai_player
  /\ gui.after = {2} /\ gui._ai_job = 2
  /\ gui.move_count = 3

\* C27: when a game of the window reaches a terminal state game_active is
\* false from the step of the terminating move on, and until the next
\* _start_game no click and no AI callback changes the board,
\* current_player or move_count; so no mark is placed on a terminal board,
\* and X and O never both hold a complete line.
C27_FinishedGameIsFrozen ==
  /\ [](is_terminal(game) => ~gui.game_active)
  /\ [](~(HasLine(game, X) /\ HasLine(game, O)))
  /\ [][(is_terminal(game) /\ call'.op # "_start_game") =>
          (game' = game /\ gui'.move_count = gui.move_count)]_vars

C27_Witness ==
  /\ is_terminal(game) /\ ~gui.game_active
  /\ call.op = "_on_cell_click"
  /\ check_winner(game) = Draw
  /\ gui.move_count = 9 /\ gui.ai_move_count = 4

\* C28: make_move and is_valid_move do not consult is_terminal.  On a
\* state where a player has three in a row and a cell is empty, make_move
\* on the cell returns True, places the mark and passes the turn, so that
\* make_move calls alone reach boards on which X and O both hold a
\* complete line.
C28_MovesAfterTheEnd ==
  (/\ call.op = "make_move"
   /\ check_winner(call.before) \in Symbols
   /\ InRange(call.args[1], call.args[2])
   /\ CellAt(call.before, call.args) = E) =>
    /\ is_terminal(call.before)
    /\ is_valid_move(call.before, call.args[1], call.args[2])
    /\ call.ret = TRUE
    /\ CellAt(game, call.args) = call.before.current_player
    /\ game.current_player # call.before.current_player

C28_Witness ==
  /\ call.op = "make_move" /\ call.ret = TRUE
  /\ check_winner(call.before) = X
  /\ ~HasLine(call.before, O)
  /\ HasLine(game, X) /\ HasLine(game, O)

===========================================================================
